---------------------------- MODULE Spec2Model ----------------------------
(***************************************************************************)
(* A model of the ElevenLabs conversation client of tz-scott-talk:         *)
(*   - ConversationManager (elevenlabs-client): the static startSession,   *)
(*     the constructor, the socket event dispatcher, the fade-out          *)
(*     protocol, endSession and the socket error/close handlers;           *)
(*   - AudioConcatProcessor: the playback worklet and its message port;    *)
(*   - WebSocketHandler.create / waitForMetadata: the handshake;           *)
(*   - useConversation (elevenlabs-react): the hook's startSession and     *)
(*     endSession over the sessions it creates.                            *)
(*   - setVolume, and the PCM16 conversions of RawAudioProcessor and of    *)
(*     the playback worklet.                                               *)
(*   - RawAudioProcessor: the capture worklet's buffering.                 *)
(* Spec runs one ConversationManager in detail (session 1); HookSpec runs  *)
(* the hook over several managers' lifecycles; FairSpec is Spec with the   *)
(* event loop's fairness; VolumeSpec adds setVolume to Spec and            *)
(* HookVolumeSpec the hook's setVolume to HookSpec; CodecSpec runs the     *)
(* sample conversions alone and CaptureSpec the capture worklet alone;     *)
(* InputSpec runs one manager's lifecycle with the capture worklet's       *)
(* chunks delivered to handleInputAudioMessage.                            *)
(***************************************************************************)
EXTENDS Integers, Sequences, FiniteSets, TLC

(* ------------------------------ bounds -------------------------------- *)

\* sessions one hook may create in a run
MaxSessions == 2
\* calls of the hook's startSession in a run
MaxCalls == 3
\* inbound frames dispatched by one manager in a run
MaxDispatch == 2
\* largest event id an inbound frame carries
MaxEventId == 2
\* samples one render callback of the playback worklet asks for
BlockLen == 2

\* samples tried on each side of -1, -1/2, 0, 1/2 and 1
SampleWindow == 8
\* TARGET_SAMPLE_RATE of the capture worklet, scaled down (16000 in the code)
TargetSampleRate == 12
\* samples the capture worklet is given in a run
MaxCaptured == 8
\* chunks the capture worklet posts to the manager in a run
MaxChunks == 2

Sessions == 1..MaxSessions
EventIds == 1..MaxEventId

VARIABLES
    \* ---- one entry per session (ConversationManager.startSession run)
    pc,             \* position of the static startSession
    status,         \* ConversationManager.connectionStatus ("none": no manager yet)
    mic,            \* AudioInputHandler: none / open / closing / closed
    sock,           \* WebSocket: none / open / closing / closed
    out,            \* AudioOutputHandler: none / open / closing / closed
    hsListener,     \* waitForMetadata's once-listener for "message" still attached
    thrown,         \* the error the failing step of startSession threw
    rejectedWith,   \* the error startSession rejected with
    epc,            \* position of ConversationManager.endSession
    log,            \* opens, close calls and notifications, in order
    connection,     \* WebSocketHandler: conversationId and sampleRate
    \* ---- session 1 in detail
    conversationMode,
    lastInterruptTime,
    audioVolume,
    gain,               \* audioOutput.gainNode.gain: its value, and whether a ramp is scheduled
    timers,             \* pending setTimeout callbacks of fadeOutAudio
    portIn,             \* messages posted to the playback worklet, not yet handled
    portOut,            \* "process" messages posted by the worklet, not yet handled
    audioBuffers,       \* AudioConcatProcessor.audioBuffers
    currentAudioBuffer, \* <<>>: null, <<b>>: the buffer b
    currentPosition,
    isInterrupted,
    isFinished,
    nDispatched,        \* inbound frames dispatched so far
    \* ---- the hook
    conversationRef,        \* 0: null, else the session
    pendingConversationRef, \* 0: null, else the session whose start is pending
    call,                   \* the hook calls made so far
    microQ,                 \* continuations waiting on a settled start, in order
    nSessions,              \* sessions created so far
    connectionStatus,       \* the hook's connectionStatus state
    \* ---- one sample on its way through the PCM16 conversions
    codec,
    \* ---- RawAudioProcessor: its buffer, what it was given and what it emitted
    capture,
    \* ---- the capture worklet's port: chunks posted and not yet handled
    micPort,
    \* ---- chunks in the playback pipeline that were posted after the most
    \*      recent interruption (all of them while there has been none)
    fresh,
    \* ---- an interruption has been dispatched and no audio accepted since
    afterInterruption,
    \* ---- what the last step was and what it emitted
    lastOp,
    fx

lifeVars == <<pc, status, mic, sock, out, hsListener, thrown, rejectedWith, epc, log>>
mgrVars == <<conversationMode, lastInterruptTime, audioVolume, gain, timers, portIn,
             portOut, nDispatched>>
workletVars == <<audioBuffers, currentAudioBuffer, currentPosition, isInterrupted,
                 isFinished>>
hookVars == <<conversationRef, pendingConversationRef, call, microQ, nSessions>>
\* the handshake result of each session, the sample being converted, the
\* capture worklet and its port
sideVars == <<connection, codec, capture, micPort>>
restVars == <<sideVars, fresh, afterInterruption>>
vars == <<lifeVars, mgrVars, workletVars, hookVars, restVars, connectionStatus, lastOp, fx>>

(* ----------------------------- helpers -------------------------------- *)

\* What one step emits: onModeChange notifications, frames sent on the socket,
\* chunks given to onAudioData, messages posted to the playback worklet, other
\* callbacks fired, samples written by the render callback, buffers the worklet
\* discarded.
NoFx == [mode |-> <<>>, sent |-> <<>>, sink |-> <<>>, posted |-> <<>>, cb |-> <<>>,
         played |-> <<>>, dropped |-> 0]

Op(name, s) == [op |-> name, s |-> s, kind |-> "", id |-> 0, accepted |-> FALSE]


\* ConversationManager.updateConnectionStatus: the new status, and the
\* onStatusChange notification when the status differs.
updateConnectionStatus(cur, new) ==
    [status |-> new,
     notes |-> IF new # cur THEN << <<"status", new>> >> ELSE <<>>]

\* The notifications a step adds to the log of the session it acts on.
Notified ==
    LET acted == {s \in Sessions : log'[s] # log[s]}
    IN  IF acted = {} THEN <<>>
        ELSE LET s == CHOOSE s \in acted : TRUE
             IN  SubSeq(log'[s], Len(log[s]) + 1, Len(log'[s]))

\* The hook's onStatusChange wrapper: setConnectionStatus(status) for every
\* status notification, whichever session it comes from.
setConnectionStatus(cur, notes) ==
    LET st == SelectSeq(notes, LAMBDA e : e[1] = "status")
    IN  IF st = <<>> THEN cur ELSE st[Len(st)][2]

\* The hook's state after a step: the sessions the hook creates carry its
\* wrapper as onStatusChange; a manager started directly carries its
\* caller's handlers, and the hook's state stays as it is.
HookNotified ==
    connectionStatus' = IF nSessions' = 0 THEN connectionStatus
                        ELSE setConnectionStatus(connectionStatus, Notified)

\* The hook calls awaiting the promise of session s, in the order they
\* registered (the creating call first, then the coalesced ones).
Waiters(s) ==
    SelectSeq([i \in 1..Len(call) |-> i],
              LAMBDA i: call[i].pc = "await" /\ call[i].joined = s)

(* ------------------------------------------------------------------------ *)
(* ConversationManager.startSession (static), one await at a time.          *)
(* ------------------------------------------------------------------------ *)

\* settings.onStatusChange({status: "connecting"}); AudioInputHandler.create(16000) begins
StartSessionBegin(s) ==
    /\ pc[s] = "idle"
    /\ pc' = [pc EXCEPT ![s] = "openMic"]
    /\ log' = [log EXCEPT ![s] = Append(@, <<"status", "connecting">>)]
    /\ UNCHANGED <<status, mic, sock, out, hsListener, thrown, rejectedWith, epc>>

\* The catch block without wsConnection?.close(): the socket is left open.
StartSessionCatch_noWsClose(s, err, sock1, log1) ==
    LET hasIn == mic[s] = "open"
        logA == Append(log1, <<"status", "disconnected">>)
        logC == IF hasIn THEN Append(logA, <<"close", "mic">>) ELSE logA
    IN  /\ thrown' = [thrown EXCEPT ![s] = err]
        /\ log' = [log EXCEPT ![s] = logC]
        /\ sock' = [sock EXCEPT ![s] = sock1]
        /\ mic' = [mic EXCEPT ![s] = IF hasIn THEN "closing" ELSE @]
        /\ pc' = [pc EXCEPT ![s] = IF hasIn THEN "unwindIn" ELSE "failed"]
        /\ rejectedWith' = [rejectedWith EXCEPT ![s] = IF hasIn THEN @ ELSE err]
        /\ microQ' = IF hasIn THEN microQ ELSE microQ \o Waiters(s)
        /\ UNCHANGED <<status, out, hsListener, epc>>

\* The catch block of startSession, entered with error err after the failing
\* create has cleaned up after itself (sock1, log1: the socket and the log then).
\* audioInput is set once the microphone is open, wsConnection once the
\* handshake is done; audioOutput is set only once all three creates succeeded.
StartSessionCatch(s, err, sock1, log1) ==
    LET hasIn == mic[s] = "open"
        hasWs == pc[s] = "openOut"
        logA == Append(log1, <<"status", "disconnected">>)
        logB == IF hasWs THEN Append(logA, <<"close", "sock">>) ELSE logA
        logC == IF hasIn THEN Append(logB, <<"close", "mic">>) ELSE logB
    IN  /\ thrown' = [thrown EXCEPT ![s] = err]
        /\ log' = [log EXCEPT ![s] = logC]
        /\ sock' = [sock EXCEPT ![s] = IF hasWs /\ sock1 = "open" THEN "closing" ELSE sock1]
        /\ mic' = [mic EXCEPT ![s] = IF hasIn THEN "closing" ELSE @]
        /\ pc' = [pc EXCEPT ![s] = IF hasIn THEN "unwindIn" ELSE "failed"]
        /\ rejectedWith' = [rejectedWith EXCEPT ![s] = IF hasIn THEN @ ELSE err]
        /\ microQ' = IF hasIn THEN microQ ELSE microQ \o Waiters(s)
        /\ UNCHANGED <<status, out, hsListener, epc>>

\* AudioInputHandler.create resolves; WebSocketHandler.create opens the socket
\* and waits for the metadata frame.
MicOpened(s) ==
    /\ UNCHANGED restVars
    /\ microQ = <<>>
    /\ pc[s] = "openMic"
    /\ pc' = [pc EXCEPT ![s] = "openSocket"]
    /\ mic' = [mic EXCEPT ![s] = "open"]
    /\ sock' = [sock EXCEPT ![s] = "open"]
    /\ hsListener' = [hsListener EXCEPT ![s] = TRUE]
    /\ log' = [log EXCEPT ![s] = @ \o << <<"open", "mic">>, <<"rate", "mic", 16000>>,
                                        <<"open", "sock">> >>]
    /\ lastOp' = Op("MicOpened", s)
    /\ fx' = NoFx
    /\ UNCHANGED <<status, out, thrown, rejectedWith, epc, microQ>>
    /\ UNCHANGED <<mgrVars, workletVars, conversationRef, pendingConversationRef, call, nSessions>>
    /\ HookNotified

\* AudioInputHandler.create rejects (it has stopped its tracks and closed its
\* context itself); nothing is open, the catch block runs through.
MicFailed(s) ==
    /\ UNCHANGED restVars
    /\ microQ = <<>>
    /\ pc[s] = "openMic"
    /\ StartSessionCatch(s, "micError", sock[s], log[s])
    /\ lastOp' = Op("MicFailed", s)
    /\ fx' = NoFx
    /\ UNCHANGED <<mgrVars, workletVars, conversationRef, pendingConversationRef, call, nSessions>>
    /\ HookNotified

\* waitForMetadata's once-listener takes the first inbound frame: the metadata
\* frame resolves the handshake, any other frame leaves the promise pending
\* with the listener gone. AudioOutputHandler.create begins on success.
FirstFrames == {"conversation_initiation_metadata", "other", "untyped"}

\* The conversation_initiation_metadata_event objects a server may send:
\* conversation_id and agent_output_audio_format, the latter as its characters.
Metadata ==
    { [conversation_id |-> "conv_b",
       agent_output_audio_format |-> <<"p", "c", "m", "_", "4", "4", "1", "0", "0">>],
      [conversation_id |-> "conv_c",
       agent_output_audio_format |-> <<"u", "l", "a", "w", "_", "8", "0", "0", "0">>] }

\* str.replace(pat, ""): the first occurrence of pat removed.
RECURSIVE replace(_, _)
replace(str, pat) ==
    IF Len(str) < Len(pat) THEN str
    ELSE IF SubSeq(str, 1, Len(pat)) = pat
         THEN SubSeq(str, Len(pat) + 1, Len(str))
         ELSE <<Head(str)>> \o replace(Tail(str), pat)

Digits == {"0", "1", "2", "3", "4", "5", "6", "7", "8", "9"}
DigitValue(c) ==
    CASE c = "0" -> 0 [] c = "1" -> 1 [] c = "2" -> 2 [] c = "3" -> 3 [] c = "4" -> 4
      [] c = "5" -> 5 [] c = "6" -> 6 [] c = "7" -> 7 [] c = "8" -> 8 [] c = "9" -> 9

\* NaN, as a sample rate.
NaN == -1

\* parseInt(str): the value of the leading decimal digits, NaN when there are none.
RECURSIVE parseDigits(_, _)
parseDigits(str, acc) ==
    IF str = <<>> \/ Head(str) \notin Digits THEN acc
    ELSE parseDigits(Tail(str), 10 * acc + DigitValue(Head(str)))

parseInt(str) ==
    IF str = <<>> \/ Head(str) \notin Digits THEN NaN ELSE parseDigits(str, 0)

\* new WebSocketHandler(webSocket, conversationId, sampleRate)
WebSocketHandler(metadata) ==
    [conversationId |-> metadata.conversation_id,
     sampleRate |-> parseInt(replace(metadata.agent_output_audio_format,
                                     <<"p", "c", "m", "_">>))]

NoConnection == [conversationId |-> "", sampleRate |-> 0]

HandshakeFrame(s, type, metadata) ==
    /\ UNCHANGED <<codec, capture, micPort, fresh, afterInterruption>>
    /\ microQ = <<>>
    /\ pc[s] = "openSocket"
    /\ sock[s] = "open"
    /\ hsListener[s]
    /\ connection' = [connection EXCEPT ![s] =
                        IF type = "conversation_initiation_metadata"
                        THEN WebSocketHandler(metadata) ELSE @]
    /\ hsListener' = [hsListener EXCEPT ![s] = FALSE]
    /\ pc' = [pc EXCEPT ![s] =
                IF type = "conversation_initiation_metadata" THEN "openOut" ELSE @]
    /\ log' = [log EXCEPT ![s] =
                 IF type = "conversation_initiation_metadata"
                 THEN Append(@, <<"metadata", metadata>>) ELSE @]
    /\ lastOp' = [Op("HandshakeFrame", s) EXCEPT !.kind = type]
    /\ fx' = NoFx
    /\ UNCHANGED <<status, mic, sock, out, thrown, rejectedWith, epc, microQ>>
    /\ UNCHANGED <<mgrVars, workletVars, conversationRef, pendingConversationRef, call, nSessions>>
    /\ HookNotified

\* AudioOutputHandler.create opened at 16 kHz whatever the handshake said.
AudioOutputRate_fixed(c) == 16000

\* AudioOutputHandler.create(wsConnection.sampleRate): the rate of the
\* playback context.
AudioOutputRate(c) == c.sampleRate

\* AudioOutputHandler.create resolves; new ConversationManager(...):
\* initializeEventListeners (listeners attached, onConnect), then
\* updateConnectionStatus("connected"); startSession resolves.
constructor(s) ==
    LET u == updateConnectionStatus("connecting", "connected")
    IN  /\ out' = [out EXCEPT ![s] = "open"]
        /\ status' = [status EXCEPT ![s] = u.status]
        /\ log' = [log EXCEPT ![s] =
                     @ \o << <<"open", "out">>,
                             <<"rate", "out", AudioOutputRate(connection[s])>>,
                             <<"cb", "onConnect", connection[s].conversationId>> >>
                       \o u.notes]
        /\ pc' = [pc EXCEPT ![s] = "ready"]

\* new AudioContext({sampleRate}) throws unless the rate is a number the
\* platform supports.
ValidRate(r) == r > 0

OutOpened(s) ==
    /\ UNCHANGED restVars
    /\ microQ = <<>>
    /\ pc[s] = "openOut"
    /\ ValidRate(connection[s].sampleRate)
    /\ constructor(s)
    /\ microQ' = Waiters(s)
    /\ lastOp' = Op("OutOpened", s)
    /\ fx' = NoFx
    /\ UNCHANGED <<mic, sock, hsListener, thrown, rejectedWith, epc>>
    /\ UNCHANGED <<mgrVars, workletVars, conversationRef, pendingConversationRef, call, nSessions>>
    /\ HookNotified

\* AudioOutputHandler.create rejects (it has closed its own context).
OutFailed(s) ==
    /\ UNCHANGED restVars
    /\ microQ = <<>>
    /\ pc[s] = "openOut"
    /\ StartSessionCatch(s, "outError", sock[s], log[s])
    /\ lastOp' = Op("OutFailed", s)
    /\ fx' = NoFx
    /\ UNCHANGED <<mgrVars, workletVars, conversationRef, pendingConversationRef, call, nSessions>>
    /\ HookNotified

\* await audioInput?.close() returns; await audioOutput?.close(); throw error.
UnwindDone(s) ==
    /\ UNCHANGED restVars
    /\ microQ = <<>>
    /\ pc[s] = "unwindIn"
    /\ mic' = [mic EXCEPT ![s] = "closed"]
    /\ out' = [out EXCEPT ![s] = IF @ = "open" THEN "closed" ELSE @]
    /\ log' = [log EXCEPT ![s] = IF out[s] = "open" THEN Append(@, <<"close", "out">>) ELSE @]
    /\ pc' = [pc EXCEPT ![s] = "failed"]
    /\ rejectedWith' = [rejectedWith EXCEPT ![s] = thrown[s]]
    /\ microQ' = Waiters(s)
    /\ lastOp' = Op("UnwindDone", s)
    /\ fx' = NoFx
    /\ UNCHANGED <<status, sock, hsListener, thrown, epc>>
    /\ UNCHANGED <<mgrVars, workletVars, conversationRef, pendingConversationRef, call, nSessions>>
    /\ HookNotified

(* ------------------------------------------------------------------------ *)
(* Socket error and close events, by who listens at the time:               *)
(* waitForMetadata (reject) during the handshake, nobody while the playback *)
(* device opens or the start unwinds, the manager once it is constructed.   *)
(* ------------------------------------------------------------------------ *)

\* handleWebSocketError reporting the error without touching the status.
handleWebSocketError_statusKept(s) ==
    /\ status' = status
    /\ log' = [log EXCEPT ![s] = Append(@, <<"cb", "onError">>)]

\* ConversationManager.handleWebSocketError
handleWebSocketError(s) ==
    LET u == updateConnectionStatus(status[s], "disconnected")
    IN  /\ status' = [status EXCEPT ![s] = u.status]
        /\ log' = [log EXCEPT ![s] = (@ \o u.notes) \o << <<"cb", "onError">> >>]

\* ConversationManager.handleWebSocketClose
handleWebSocketClose(s) ==
    LET u == updateConnectionStatus(status[s], "disconnected")
    IN  /\ status' = [status EXCEPT ![s] = u.status]
        /\ log' = [log EXCEPT ![s] = (@ \o u.notes) \o << <<"cb", "onDisconnect">> >>]

\* WebSocketHandler.create's catch block without webSocket?.close(): the
\* socket is left as it was.
HandshakeRejected_noClose(s, sockAfter) ==
    StartSessionCatch(s, "handshakeError", sock[s], log[s])

\* WebSocketHandler.create's catch block (webSocket?.close(); throw error),
\* then the catch block of startSession. sockAfter: the socket once closed.
HandshakeRejected(s, sockAfter) ==
    StartSessionCatch(s, "handshakeError", sockAfter,
                      Append(log[s], <<"close", "sock">>))

\* The socket fires "error"; its "close" event follows.
SocketError(s) ==
    /\ UNCHANGED restVars
    /\ microQ = <<>>
    /\ sock[s] = "open"
    /\ lastOp' = Op("SocketError", s)
    /\ fx' = NoFx
    /\ IF pc[s] = "openSocket"
       THEN HandshakeRejected(s, "closing")
       ELSE /\ sock' = [sock EXCEPT ![s] = "closing"]
            /\ IF pc[s] = "ready"
               THEN handleWebSocketError(s)
               ELSE UNCHANGED <<status, log>>
            /\ UNCHANGED <<pc, mic, out, hsListener, thrown, rejectedWith, epc, microQ>>
    /\ UNCHANGED <<mgrVars, workletVars, conversationRef, pendingConversationRef, call, nSessions>>
    /\ HookNotified

\* The socket fires "close": the remote end closed it, or the close that
\* follows socket.close() or an error has completed.
SocketClose(s) ==
    /\ UNCHANGED restVars
    /\ microQ = <<>>
    /\ sock[s] \in {"open", "closing"}
    /\ lastOp' = Op("SocketClose", s)
    /\ fx' = NoFx
    /\ IF pc[s] = "openSocket"
       THEN HandshakeRejected(s, "closed")
       ELSE /\ sock' = [sock EXCEPT ![s] = "closed"]
            /\ IF pc[s] = "ready"
               THEN handleWebSocketClose(s)
               ELSE UNCHANGED <<status, log>>
            /\ UNCHANGED <<pc, mic, out, hsListener, thrown, rejectedWith, epc, microQ>>
    /\ UNCHANGED <<mgrVars, workletVars, conversationRef, pendingConversationRef, call, nSessions>>
    /\ HookNotified

(* ------------------------------------------------------------------------ *)
(* ConversationManager.endSession                                           *)
(* ------------------------------------------------------------------------ *)

\* endSession's first part, whatever the status.
endSessionBody(s) ==
    LET u == updateConnectionStatus(status[s], "disconnecting")
    IN  /\ status' = [status EXCEPT ![s] = u.status]
        /\ log' = [log EXCEPT ![s] =
                     (@ \o u.notes) \o << <<"close", "sock">>, <<"close", "mic">> >>]
        /\ sock' = [sock EXCEPT ![s] = IF @ = "open" THEN "closing" ELSE @]
        /\ mic' = [mic EXCEPT ![s] = "closing"]
        /\ epc' = [epc EXCEPT ![s] = "awaitIn"]
        /\ UNCHANGED <<pc, out, hsListener, thrown, rejectedWith>>

\* endSession without its guard.
endSession_unguarded(s) == endSessionBody(s)

\* endSession guarded by "not yet disconnected" instead of "connected".
endSession_notDisconnected(s) ==
    IF status[s] # "disconnected" THEN endSessionBody(s) ELSE UNCHANGED lifeVars

\* Up to the first await: the guard, updateConnectionStatus("disconnecting"),
\* connection.close(), audioInput.close() called.
endSession(s) ==
    IF status[s] = "connected" THEN endSessionBody(s) ELSE UNCHANGED lifeVars

\* endSession called on the manager directly.
EndSession(s) ==
    /\ UNCHANGED restVars
    /\ microQ = <<>>
    /\ pc[s] = "ready"
    /\ endSession(s)
    /\ lastOp' = [Op("EndSession", s) EXCEPT !.accepted = (status[s] = "connected")]
    /\ fx' = NoFx
    /\ UNCHANGED <<mgrVars, workletVars, hookVars>>
    /\ HookNotified

\* await this.audioInput.close() returns; this.audioOutput.close() is called.
EndAwaitIn(s) ==
    /\ UNCHANGED restVars
    /\ microQ = <<>>
    /\ epc[s] = "awaitIn"
    /\ mic' = [mic EXCEPT ![s] = "closed"]
    /\ out' = [out EXCEPT ![s] = "closing"]
    /\ log' = [log EXCEPT ![s] = Append(@, <<"close", "out">>)]
    /\ epc' = [epc EXCEPT ![s] = "awaitOut"]
    /\ lastOp' = Op("EndAwaitIn", s)
    /\ fx' = NoFx
    /\ UNCHANGED <<pc, status, sock, hsListener, thrown, rejectedWith>>
    /\ UNCHANGED <<mgrVars, workletVars, hookVars>>
    /\ HookNotified

\* await this.audioOutput.close() returns; updateConnectionStatus("disconnected").
EndAwaitOut(s) ==
    /\ UNCHANGED restVars
    /\ microQ = <<>>
    /\ epc[s] = "awaitOut"
    /\ LET u == updateConnectionStatus(status[s], "disconnected")
       IN  /\ status' = [status EXCEPT ![s] = u.status]
           /\ log' = [log EXCEPT ![s] = @ \o u.notes]
    /\ out' = [out EXCEPT ![s] = "closed"]
    /\ epc' = [epc EXCEPT ![s] = "done"]
    /\ lastOp' = Op("EndAwaitOut", s)
    /\ fx' = NoFx
    /\ UNCHANGED <<pc, mic, sock, hsListener, thrown, rejectedWith>>
    /\ UNCHANGED <<mgrVars, workletVars, hookVars>>
    /\ HookNotified

(* ------------------------------------------------------------------------ *)
(* ConversationManager.handleWebSocketMessage: the dispatch of one inbound  *)
(* frame of session 1, and the handlers it calls.                           *)
(* ------------------------------------------------------------------------ *)

\* A base64 string is the sequence of its characters: 0..63 for the alphabet
\* A-Z a-z 0-9 + /, Pad for "=", anything else for a character outside it.
Pad == 64

\* The audio_base_64 payloads the frames carry: "AQA=" (bytes 01 00), "AgD//w=="
\* (bytes 02 00 FF FF), "AQ==" (the single byte 01), "A?A=", which is not
\* base64, and "" (no bytes).
Payloads == { <<0, 16, 0, Pad>>, <<0, 32, 3, 63, 63, 48, Pad, Pad>>,
              <<0, 16, Pad, Pad>>, <<0, 99, 0, Pad>>, <<>> }

\* atob's first step: one or two trailing "=" of a string whose length is a
\* multiple of four are removed.
StripPadding(str) ==
    IF Len(str) > 0 /\ Len(str) % 4 = 0 /\ str[Len(str)] = Pad
    THEN IF str[Len(str) - 1] = Pad
         THEN SubSeq(str, 1, Len(str) - 2)
         ELSE SubSeq(str, 1, Len(str) - 1)
    ELSE str

\* The bytes of a string of alphabet characters: every four characters give
\* three bytes, two left over give one byte, three left over give two.
RECURSIVE DecodeBase64(_)
DecodeBase64(str) ==
    IF Len(str) < 2 THEN <<>>
    ELSE LET b1 == str[1] * 4 + str[2] \div 16
         IN  IF Len(str) = 2 THEN <<b1>>
             ELSE LET b2 == (str[2] % 16) * 16 + str[3] \div 4
                  IN  IF Len(str) = 3 THEN <<b1, b2>>
                      ELSE <<b1, b2, (str[3] % 4) * 64 + str[4]>>
                           \o DecodeBase64(SubSeq(str, 5, Len(str)))

\* base64ToArrayBuffer: window.atob throws an InvalidCharacterError on a
\* string that is not base64; otherwise the bytes of the binary string.
base64ToArrayBuffer(base64String) ==
    LET str == StripPadding(base64String)
    IN  IF Len(str) % 4 = 1 \/ \E i \in 1..Len(str) : str[i] \notin 0..63
        THEN [ok |-> FALSE, bytes |-> <<>>]
        ELSE [ok |-> TRUE, bytes |-> DecodeBase64(str)]

\* The inbound frames: type, event id, whether the *_event object is present,
\* the decoded payload.
Frame(type, id, hasEvent, audio_base_64) ==
    [type |-> type, id |-> id, hasEvent |-> hasEvent, audio_base_64 |-> audio_base_64]

Frames ==
    {Frame("interruption", id, TRUE, <<>>) : id \in EventIds}
    \cup {Frame("interruption", 0, FALSE, <<>>)}
    \cup {Frame("audio", id, TRUE, b) : id \in EventIds, b \in Payloads}
    \cup {Frame("ping", id, TRUE, <<>>) : id \in EventIds}
    \cup {Frame(t, 0, TRUE, <<>>) :
            t \in {"agent_response", "user_transcript",
                   "internal_tentative_agent_response", "unknown", "untyped",
                   "malformed"}}

\* updateConversationMode notifying on every call.
updateConversationMode_always(cur, new) == [mode |-> new, notes |-> <<new>>]

\* ConversationManager.updateConversationMode: the new mode, and the
\* onModeChange notification when the mode differs.
updateConversationMode(cur, new) ==
    [mode |-> new, notes |-> IF new # cur THEN <<new>> ELSE <<>>]

\* The guard with a strict comparison: audio carrying the interruption's own
\* event id is dropped too.
AudioAccepted_strict(last, id) == last < id

\* The ordering guard of handleIncomingAudio.
AudioAccepted(last, id) == last <= id

\* handleInterruption's update of lastInterruptTime.
InterruptTime(last, f) == IF f.hasEvent THEN f.id ELSE last

\* The interruption case without fadeOutAudio's updateConversationMode: the
\* mode is left interrupted.
DispatchInterruption_stayInterrupted(f) ==
    LET m1 == updateConversationMode(conversationMode, "interrupted")
    IN  /\ lastInterruptTime' = InterruptTime(lastInterruptTime, f)
        /\ conversationMode' = m1.mode
        /\ portIn' = Append(portIn, [type |-> "interrupt", buffer |-> <<>>])
        /\ gain' = [gain EXCEPT !.ramp = TRUE]
        /\ timers' = timers + 1
        /\ fx' = [NoFx EXCEPT !.mode = m1.notes,
                              !.posted = << [type |-> "interrupt", buffer |-> <<>>] >>]
        /\ lastOp' = [op |-> "Dispatch", s |-> 1, kind |-> f.type, id |-> f.id,
                      accepted |-> TRUE]
        /\ UNCHANGED <<audioVolume, portOut>>

\* case "interruption": updateConversationMode("interrupted"),
\* handleInterruption, fadeOutAudio (mode listening, "interrupt" posted, the
\* gain ramp started, the 2 s timer set).
DispatchInterruption(f) ==
    LET m1 == updateConversationMode(conversationMode, "interrupted")
        m2 == updateConversationMode(m1.mode, "listening")
    IN  /\ lastInterruptTime' = InterruptTime(lastInterruptTime, f)
        /\ conversationMode' = m2.mode
        /\ portIn' = Append(portIn, [type |-> "interrupt", buffer |-> <<>>])
        /\ gain' = [gain EXCEPT !.ramp = TRUE]
        /\ timers' = timers + 1
        /\ fx' = [NoFx EXCEPT !.mode = m1.notes \o m2.notes,
                              !.posted = << [type |-> "interrupt", buffer |-> <<>>] >>]
        /\ lastOp' = [op |-> "Dispatch", s |-> 1, kind |-> f.type, id |-> f.id,
                      accepted |-> TRUE]
        /\ UNCHANGED <<audioVolume, portOut>>

\* processIncomingAudio: the chunk goes to onAudioData, the gain is reset,
\* "clearInterrupted" and then the buffer are posted to the worklet.
\* It is async and nobody awaits it: when base64ToArrayBuffer throws, the
\* promise it returns rejects unobserved and nothing else has happened.
processIncomingAudio(base64Audio) ==
    LET audioBuffer == base64ToArrayBuffer(base64Audio)
    IN  IF audioBuffer.ok
        THEN [sink |-> <<audioBuffer.bytes>>,
              gain |-> [value |-> audioVolume, ramp |-> FALSE],
              posted |-> << [type |-> "clearInterrupted", buffer |-> <<>>],
                            [type |-> "buffer", buffer |-> audioBuffer.bytes] >>,
              rejected |-> FALSE]
        ELSE [sink |-> <<>>, gain |-> gain, posted |-> <<>>, rejected |-> TRUE]

\* case "audio": handleIncomingAudio.
DispatchAudio(f) ==
    LET ok == AudioAccepted(lastInterruptTime, f.id)
        p == processIncomingAudio(f.audio_base_64)
        m == updateConversationMode(conversationMode, "speaking")
    IN  /\ lastOp' = [op |-> "Dispatch", s |-> 1, kind |-> f.type, id |-> f.id,
                      accepted |-> ok]
        /\ IF ok
           THEN /\ gain' = p.gain
                /\ portIn' = portIn \o p.posted
                /\ conversationMode' = m.mode
                /\ fx' = [NoFx EXCEPT !.mode = m.notes, !.sink = p.sink,
                                      !.posted = p.posted,
                                      !.cb = IF p.rejected THEN <<"unhandledrejection">>
                                             ELSE <<>>]
           ELSE /\ fx' = NoFx
                /\ UNCHANGED <<gain, portIn, conversationMode>>
        /\ UNCHANGED <<lastInterruptTime, audioVolume, timers, portOut>>

\* handlePing answering with a fixed event id.
handlePing_fixedId(f) == << [type |-> "pong", event_id |-> 0] >>

\* case "ping": handlePing.
handlePing(f) == << [type |-> "pong", event_id |-> f.id] >>

DispatchPing(f) ==
    /\ fx' = [NoFx EXCEPT !.sent = handlePing(f)]
    /\ lastOp' = [op |-> "Dispatch", s |-> 1, kind |-> f.type, id |-> f.id,
                  accepted |-> TRUE]
    /\ UNCHANGED <<conversationMode, lastInterruptTime, audioVolume, gain, timers,
                   portIn, portOut>>

\* The dispatcher swallowing a frame that does not parse without a word.
handleWebSocketMessage_silent(f) ==
    CASE f.type \in {"agent_response", "user_transcript"} -> <<"onMessage">>
      [] f.type \in {"internal_tentative_agent_response", "unknown"} -> <<"onDebug">>
      [] OTHER -> <<>>

\* The callbacks handleWebSocketMessage fires for the remaining frames:
\* agent_response, user_transcript: onMessage; the tentative response and the
\* unknown types: onDebug; a frame without a type: return; a frame that does
\* not parse: the catch block's handleError (onError).
handleWebSocketMessage(f) ==
    CASE f.type \in {"agent_response", "user_transcript"} -> <<"onMessage">>
      [] f.type \in {"internal_tentative_agent_response", "unknown"} -> <<"onDebug">>
      [] f.type = "malformed" -> <<"onError">>
      [] OTHER -> <<>>

DispatchOther(f) ==
    /\ fx' = [NoFx EXCEPT !.cb = handleWebSocketMessage(f)]
    /\ lastOp' = [op |-> "Dispatch", s |-> 1, kind |-> f.type, id |-> f.id,
                  accepted |-> TRUE]
    /\ UNCHANGED <<conversationMode, lastInterruptTime, audioVolume, gain, timers,
                   portIn, portOut>>

\* The "buffer" messages among the messages of a port.
BuffersIn(port) == Len(SelectSeq(port, LAMBDA m : m.type = "buffer"))

\* The chunks in the playback pipeline: posted and not yet handled, queued in
\* the worklet, or being played.
PipelineLen(port, queue, current) == BuffersIn(port) + Len(queue) + Len(current)

Min(a, b) == IF a < b THEN a ELSE b

\* The socket delivers a frame to the manager's "message" listener: the
\* listener is attached by the constructor, and a socket delivers messages
\* only while it is open.
Dispatch(f) ==
    /\ UNCHANGED <<sideVars, connectionStatus>>
    /\ fresh' = CASE f.type = "interruption" -> 0
                  [] f.type = "audio" /\ AudioAccepted(lastInterruptTime, f.id) ->
                        fresh + BuffersIn(processIncomingAudio(f.audio_base_64).posted)
                  [] OTHER -> fresh
    /\ afterInterruption' = CASE f.type = "interruption" -> TRUE
                              [] f.type = "audio" /\ AudioAccepted(lastInterruptTime, f.id) -> FALSE
                              [] OTHER -> afterInterruption
    /\ microQ = <<>>
    /\ pc[1] = "ready"
    /\ sock[1] = "open"
    /\ nDispatched < MaxDispatch
    /\ nDispatched' = nDispatched + 1
    /\ CASE f.type = "interruption" -> DispatchInterruption(f)
         [] f.type = "audio" -> DispatchAudio(f)
         [] f.type = "ping" -> DispatchPing(f)
         [] OTHER -> DispatchOther(f)
    /\ UNCHANGED <<lifeVars, workletVars, hookVars>>

\* The socket delivers a frame while nobody listens for "message":
\* waitForMetadata's once-listener has gone with the first frame, and the
\* manager's listener is attached only by the constructor, after
\* AudioOutputHandler.create has resolved. The event has no listener to run;
\* the frame is not kept for a listener attached later.
MessageUnheard(s, f) ==
    /\ UNCHANGED restVars
    /\ microQ = <<>>
    /\ pc[s] \in {"openSocket", "openOut"}
    /\ ~hsListener[s]
    /\ sock[s] = "open"
    /\ lastOp' = [op |-> "MessageUnheard", s |-> s, kind |-> f.type, id |-> f.id,
                  accepted |-> FALSE]
    /\ fx' = NoFx
    /\ UNCHANGED <<lifeVars, mgrVars, workletVars, hookVars>>
    /\ HookNotified

\* The timer callback restoring the gain without posting "clearInterrupted".
TimerFire_noClear ==
    /\ UNCHANGED restVars
    /\ microQ = <<>>
    /\ timers > 0
    /\ timers' = timers - 1
    /\ gain' = [value |-> audioVolume, ramp |-> FALSE]
    /\ fx' = NoFx
    /\ lastOp' = Op("TimerFire", 1)
    /\ UNCHANGED <<conversationMode, lastInterruptTime, audioVolume, portIn, portOut,
                   nDispatched>>
    /\ UNCHANGED <<lifeVars, workletVars, hookVars>>
    /\ HookNotified

\* The 2 s timer of fadeOutAudio fires: the gain is restored and
\* "clearInterrupted" is posted.
TimerFire ==
    /\ UNCHANGED restVars
    /\ microQ = <<>>
    /\ timers > 0
    /\ timers' = timers - 1
    /\ gain' = [value |-> audioVolume, ramp |-> FALSE]
    /\ portIn' = Append(portIn, [type |-> "clearInterrupted", buffer |-> <<>>])
    /\ fx' = [NoFx EXCEPT !.posted = << [type |-> "clearInterrupted", buffer |-> <<>>] >>]
    /\ lastOp' = Op("TimerFire", 1)
    /\ UNCHANGED <<conversationMode, lastInterruptTime, audioVolume, portOut, nDispatched>>
    /\ UNCHANGED <<lifeVars, workletVars, hookVars>>
    /\ HookNotified

\* ConversationManager.handleOutputAudioMessage: a "process" message of the
\* worklet arrives on the main thread.
handleOutputAudioMessage(finished) ==
    updateConversationMode(conversationMode, IF finished THEN "listening" ELSE "speaking")

OutputMessage ==
    /\ UNCHANGED restVars
    /\ microQ = <<>>
    /\ pc[1] = "ready"
    /\ portOut # <<>>
    /\ LET m == handleOutputAudioMessage(Head(portOut))
       IN  /\ conversationMode' = m.mode
           /\ fx' = [NoFx EXCEPT !.mode = m.notes]
    /\ portOut' = Tail(portOut)
    /\ lastOp' = [Op("OutputMessage", 1) EXCEPT !.accepted = Head(portOut)]
    /\ UNCHANGED <<lastInterruptTime, audioVolume, gain, timers, portIn, nDispatched>>
    /\ UNCHANGED <<lifeVars, workletVars, hookVars>>
    /\ HookNotified

(* ------------------------------------------------------------------------ *)
(* AudioConcatProcessor: the playback worklet of session 1.                 *)
(* ------------------------------------------------------------------------ *)

\* new Int16Array(buffer): pairs of bytes, little-endian, two's complement.
RECURSIVE Int16Array(_)
Int16Array(bytes) ==
    IF Len(bytes) < 2 THEN <<>>
    ELSE LET u == bytes[1] + 256 * bytes[2]
         IN  <<IF u >= 32768 THEN u - 65536 ELSE u>> \o Int16Array(SubSeq(bytes, 3, Len(bytes)))

\* The worklet's fields as one record.
Worklet ==
    [audioBuffers |-> audioBuffers, currentAudioBuffer |-> currentAudioBuffer,
     currentPosition |-> currentPosition, isInterrupted |-> isInterrupted]

\* new Int16Array(buffer) throws a RangeError on a byte length that is odd:
\* the flag is cleared and nothing is pushed.
handleNewBuffer(w, buffer) ==
    IF Len(buffer) % 2 # 0
    THEN [w EXCEPT !.isInterrupted = FALSE]
    ELSE [w EXCEPT !.isInterrupted = FALSE,
                   !.audioBuffers = Append(@, Int16Array(buffer))]

handleInterruption(w) == [w EXCEPT !.isInterrupted = TRUE]

\* handleClearInterruption without the test of the flag.
handleClearInterruption_always(w) ==
    [w EXCEPT !.isInterrupted = FALSE, !.audioBuffers = <<>>,
              !.currentAudioBuffer = <<>>]

handleClearInterruption(w) ==
    IF w.isInterrupted
    THEN [w EXCEPT !.isInterrupted = FALSE, !.audioBuffers = <<>>,
                   !.currentAudioBuffer = <<>>]
    ELSE w

\* this.port.onmessage
onmessage(w, data) ==
    CASE data.type = "buffer" -> handleNewBuffer(w, data.buffer)
      [] data.type = "interrupt" -> handleInterruption(w)
      [] data.type = "clearInterrupted" -> handleClearInterruption(w)

\* The audio thread handles the next message of the port.
WorkletMessage ==
    /\ UNCHANGED <<sideVars, afterInterruption, connectionStatus>>
    /\ microQ = <<>>
    /\ out[1] = "open"
    /\ portIn # <<>>
    /\ LET w == onmessage(Worklet, Head(portIn))
       IN  /\ audioBuffers' = w.audioBuffers
           /\ currentAudioBuffer' = w.currentAudioBuffer
           /\ currentPosition' = w.currentPosition
           /\ isInterrupted' = w.isInterrupted
    /\ portIn' = Tail(portIn)
    /\ fresh' = IF Head(portIn).type = "buffer" /\ Len(Head(portIn).buffer) % 2 # 0
                THEN IF fresh >= BuffersIn(portIn) THEN fresh - 1 ELSE fresh
                ELSE Min(fresh, PipelineLen(portIn', audioBuffers', currentAudioBuffer'))
    /\ lastOp' = [Op("WorkletMessage", 1) EXCEPT !.kind = Head(portIn).type]
    /\ fx' = [NoFx EXCEPT !.dropped =
                IF Head(portIn).type = "buffer" THEN 0
                ELSE (Len(audioBuffers) + Len(currentAudioBuffer))
                     - (Len(audioBuffers') + Len(currentAudioBuffer'))]
    /\ UNCHANGED <<isFinished, conversationMode, lastInterruptTime, audioVolume, gain,
                   timers, portOut, nDispatched>>
    /\ UNCHANGED <<lifeVars, hookVars>>

\* What a read past the end of a typed array gives: undefined (NaN once it is
\* divided and stored in the output).
Undefined == 65536

\* this.currentAudioBuffer[this.currentPosition], position counting from 0.
Element(b, position) == IF position < Len(b) THEN b[position + 1] ELSE Undefined

\* processAudioOutput: the loop over the output block from index i on.
\* st: the worklet's queue, buffer and position, the samples written so far
\* (the PCM value of each, before the division by 32768) and the result.
RECURSIVE processAudioOutput(_, _)
processAudioOutput(i, st) ==
    IF i > BlockLen THEN st
    ELSE IF st.currentAudioBuffer = <<>> /\ st.audioBuffers = <<>>
         THEN [st EXCEPT !.isFinished = TRUE]
         ELSE LET st1 == IF st.currentAudioBuffer = <<>>
                         THEN [st EXCEPT !.currentAudioBuffer = <<Head(st.audioBuffers)>>,
                                         !.audioBuffers = Tail(st.audioBuffers),
                                         !.currentPosition = 0]
                         ELSE st
                  b == st1.currentAudioBuffer[1]
                  pos == st1.currentPosition + 1
              IN  processAudioOutput(i + 1,
                      [st1 EXCEPT !.played = Append(@, Element(b, st1.currentPosition)),
                                  !.currentPosition = pos,
                                  !.currentAudioBuffer = IF pos >= Len(b) THEN <<>> ELSE @])

\* process: one render callback; a "process" message is posted when the
\* finished state differs from the one last reported.
Process ==
    /\ UNCHANGED <<sideVars, afterInterruption, connectionStatus>>
    /\ microQ = <<>>
    /\ out[1] = "open"
    /\ LET st == processAudioOutput(1,
                    [audioBuffers |-> audioBuffers,
                     currentAudioBuffer |-> currentAudioBuffer,
                     currentPosition |-> currentPosition,
                     played |-> <<>>, isFinished |-> FALSE])
       IN  /\ audioBuffers' = st.audioBuffers
           /\ currentAudioBuffer' = st.currentAudioBuffer
           /\ currentPosition' = st.currentPosition
           /\ isFinished' = st.isFinished
           /\ portOut' = IF isFinished # st.isFinished
                         THEN Append(portOut, st.isFinished) ELSE portOut
           /\ fx' = [NoFx EXCEPT !.played = st.played]
           /\ fresh' = Min(fresh, PipelineLen(portIn, st.audioBuffers,
                                              st.currentAudioBuffer))
    /\ lastOp' = Op("Process", 1)
    /\ UNCHANGED <<isInterrupted, conversationMode, lastInterruptTime, audioVolume, gain,
                   timers, portIn, nDispatched>>
    /\ UNCHANGED <<lifeVars, hookVars>>

(* ------------------------------------------------------------------------ *)
(* Spec: one ConversationManager, started directly.                         *)
(* ------------------------------------------------------------------------ *)

\* No sample is being converted.
NoSample == [stage |-> "idle", float32 |-> 0, pcm16 |-> 0, output |-> 0]

\* The RawAudioProcessor as its constructor leaves it: audioBuffer empty;
\* nothing captured, nothing emitted yet.
NoCapture == [audioBuffer |-> <<>>, captured |-> <<>>, emitted |-> <<>>]

\* The port of the capture worklet's node before anything was posted:
\* nothing queued, no chunk posted yet.
NoChunks == [queue |-> <<>>, posted |-> 0]

InitLife ==
    /\ pc = [s \in Sessions |-> "idle"]
    /\ status = [s \in Sessions |-> "none"]
    /\ mic = [s \in Sessions |-> "none"]
    /\ sock = [s \in Sessions |-> "none"]
    /\ out = [s \in Sessions |-> "none"]
    /\ hsListener = [s \in Sessions |-> FALSE]
    /\ thrown = [s \in Sessions |-> "none"]
    /\ rejectedWith = [s \in Sessions |-> "none"]
    /\ epc = [s \in Sessions |-> "idle"]
    /\ log = [s \in Sessions |-> <<>>]
    /\ connection = [s \in Sessions |-> NoConnection]

\* The fields the ConversationManager constructor and the AudioConcatProcessor
\* constructor set.
InitDetail ==
    /\ conversationMode = "listening"
    /\ lastInterruptTime = 0
    /\ audioVolume = 1
    /\ gain = [value |-> 1, ramp |-> FALSE]
    /\ timers = 0
    /\ portIn = <<>>
    /\ portOut = <<>>
    /\ nDispatched = 0
    /\ audioBuffers = <<>>
    /\ currentAudioBuffer = <<>>
    /\ currentPosition = 0
    /\ isInterrupted = FALSE
    /\ isFinished = FALSE

InitHook ==
    /\ connectionStatus = "disconnected"
    /\ conversationRef = 0
    /\ pendingConversationRef = 0
    /\ call = <<>>
    /\ microQ = <<>>
    /\ nSessions = 0

Init ==
    /\ InitLife
    /\ InitDetail
    /\ InitHook
    /\ codec = NoSample
    /\ capture = NoCapture
    /\ micPort = NoChunks
    /\ fresh = 0
    /\ afterInterruption = FALSE
    /\ lastOp = Op("init", 0)
    /\ fx = NoFx

\* Conversation.startSession(config) called directly.
StartSession ==
    /\ UNCHANGED restVars
    /\ StartSessionBegin(1)
    /\ lastOp' = Op("StartSession", 1)
    /\ fx' = NoFx
    /\ UNCHANGED <<mgrVars, workletVars, hookVars>>
    /\ HookNotified

Next ==
    \/ StartSession
    \/ MicOpened(1)
    \/ MicFailed(1)
    \/ \E t \in FirstFrames, m \in Metadata : HandshakeFrame(1, t, m)
    \/ OutOpened(1)
    \/ OutFailed(1)
    \/ UnwindDone(1)
    \/ SocketError(1)
    \/ SocketClose(1)
    \/ EndSession(1)
    \/ EndAwaitIn(1)
    \/ EndAwaitOut(1)
    \/ \E f \in Frames : Dispatch(f)
    \/ \E f \in Frames : MessageUnheard(1, f)
    \/ TimerFire
    \/ OutputMessage
    \/ WorkletMessage
    \/ Process

Spec == Init /\ [][Next]_vars

(* ------------------------------------------------------------------------ *)
(* VolumeSpec: the manager with its volume control in use.                  *)
(* ------------------------------------------------------------------------ *)

\* The volumes a caller sets: muted and full.
Volumes == {0, 1}

\* ConversationManager.setVolume
setVolume(volume) == [audioVolume |-> volume, gain |-> gain]

SetVolume(volume) ==
    /\ UNCHANGED restVars
    /\ microQ = <<>>
    /\ pc[1] = "ready"
    /\ LET r == setVolume(volume)
       IN  /\ audioVolume' = r.audioVolume
           /\ gain' = r.gain
    /\ lastOp' = [Op("SetVolume", 1) EXCEPT !.id = volume]
    /\ fx' = NoFx
    /\ UNCHANGED <<conversationMode, lastInterruptTime, timers, portIn, portOut, nDispatched>>
    /\ UNCHANGED <<lifeVars, workletVars, hookVars>>
    /\ HookNotified

VolumeNext ==
    \/ Next
    \/ \E v \in Volumes : SetVolume(v)

VolumeSpec == Init /\ [][VolumeNext]_vars

(* ------------------------------------------------------------------------ *)
(* CodecSpec: one sample through RawAudioProcessor's float-to-PCM16         *)
(* conversion and AudioConcatProcessor's PCM16-to-float conversion.         *)
(* A float is the numerator of a fraction over Den.                         *)
(* ------------------------------------------------------------------------ *)

Den == 2 * 32768

\* The float samples tried: around -1, -1/2, 0, 1/2 and 1, and well outside.
Samples ==
    UNION { (c - SampleWindow)..(c + SampleWindow) :
              c \in {-Den, -(Den \div 2), 0, Den \div 2, Den} }
    \cup {-3 * Den, 3 * Den}

\* Math.max(-1, Math.min(1, x))
Clamp(x) ==
    LET m == IF x < Den THEN x ELSE Den
    IN  IF m > -Den THEN m ELSE -Den

\* The store of the number p / q into an Int16Array element: the fraction is
\* dropped (rounding toward zero); the values stored here fit 16 bits.
ToInt16(p, q) ==
    IF p >= 0 THEN p \div q ELSE (p + q - 1) \div q

\* processAndSendBuffer, one sample:
\* pcm16Data[i] = sample < 0 ? sample * 32768 : sample * 32767
FloatToPcm16(x) ==
    LET sample == Clamp(x)
    IN  IF sample < 0 THEN ToInt16(sample * 32768, Den) ELSE ToInt16(sample * 32767, Den)

\* processAudioOutput, one sample: output[i] = buffer[position] / 32768
Pcm16ToFloat(v) == (v * Den) \div 32768

Encode ==
    /\ codec.stage = "float"
    /\ codec' = [codec EXCEPT !.stage = "pcm", !.pcm16 = FloatToPcm16(codec.float32)]
    /\ UNCHANGED <<lifeVars, mgrVars, workletVars, hookVars, connection, capture, micPort, fresh, afterInterruption, connectionStatus, lastOp, fx>>

Decode ==
    /\ codec.stage = "pcm"
    /\ codec' = [codec EXCEPT !.stage = "decoded", !.output = Pcm16ToFloat(codec.pcm16)]
    /\ UNCHANGED <<lifeVars, mgrVars, workletVars, hookVars, connection, capture, micPort, fresh, afterInterruption, connectionStatus, lastOp, fx>>

CodecInit ==
    /\ InitLife
    /\ InitDetail
    /\ InitHook
    /\ codec \in {[NoSample EXCEPT !.stage = "float", !.float32 = x] : x \in Samples}
    /\ capture = NoCapture
    /\ micPort = NoChunks
    /\ fresh = 0
    /\ afterInterruption = FALSE
    /\ lastOp = Op("init", 0)
    /\ fx = NoFx

CodecNext == Encode \/ Decode

CodecSpec == CodecInit /\ [][CodecNext]_vars

(* ------------------------------------------------------------------------ *)
(* CaptureSpec: RawAudioProcessor, the capture worklet, fed block by block. *)
(* ------------------------------------------------------------------------ *)

\* The float samples the microphone delivers: -1 and 1/2.
CaptureSamples == {-Den, Den \div 2}

\* The blocks one render callback may bring (after resampling, if any): up to
\* BlockLen samples, or none.
Blocks == UNION {[1..n -> CaptureSamples] : n \in 0..BlockLen}

\* The PCM16 conversion of a buffer, sample by sample.
ToPcm16(buffer) == [i \in 1..Len(buffer) |-> FloatToPcm16(buffer[i])]

\* processAndSendBuffer posting the chunk without clearing the buffer.
processAndSendBuffer_keepsBuffer(st) ==
    [st EXCEPT !.emitted = Append(@, ToPcm16(st.audioBuffer))]

\* processAndSendBuffer: the buffer is converted and posted as one chunk (the
\* volume reading that goes with it is not kept here), then cleared.
processAndSendBuffer(st) ==
    [st EXCEPT !.emitted = Append(@, ToPcm16(st.audioBuffer)),
               !.audioBuffer = <<>>]

\* RawAudioProcessor.process: the block is pushed on the buffer, and the
\* buffer is sent when its length has reached bufferThreshold, which is
\* TARGET_SAMPLE_RATE / 4.
RawProcess(st, audioData) ==
    LET st1 == [st EXCEPT !.audioBuffer = @ \o audioData, !.captured = @ \o audioData]
    IN  IF 4 * Len(st1.audioBuffer) >= TargetSampleRate
        THEN processAndSendBuffer(st1)
        ELSE st1

\* One render callback of the capture worklet.
Capture(audioData) ==
    /\ Len(capture.captured) + Len(audioData) <= MaxCaptured
    /\ capture' = RawProcess(capture, audioData)
    /\ UNCHANGED <<lifeVars, mgrVars, workletVars, hookVars, connection, codec, micPort, fresh, afterInterruption, connectionStatus, lastOp, fx>>

CaptureNext == \E audioData \in Blocks : Capture(audioData)

CaptureSpec == Init /\ [][CaptureNext]_vars

(* ------------------------------------------------------------------------ *)
(* InputSpec: the lifecycle of one manager with the microphone running:     *)
(* the capture worklet posts chunks, handleInputAudioMessage forwards them. *)
(* ------------------------------------------------------------------------ *)

\* The k-th chunk the capture worklet posts, as PCM16 samples.
Chunk(k) == <<k, -k>>

\* event.data[0].buffer: the bytes of an Int16Array, low byte first.
Int16Bytes(pcm16Data) ==
    [i \in 1..(2 * Len(pcm16Data)) |->
        LET u == pcm16Data[(i + 1) \div 2] % 65536
        IN  IF i % 2 = 1 THEN u % 256 ELSE u \div 256]

\* window.btoa of the binary string of the bytes: every three bytes give four
\* characters; one or two bytes left over give two or three, padded with "=".
RECURSIVE btoa(_)
btoa(bytes) ==
    IF Len(bytes) = 0 THEN <<>>
    ELSE LET b1 == bytes[1]
         IN  IF Len(bytes) = 1 THEN <<b1 \div 4, (b1 % 4) * 16, Pad, Pad>>
             ELSE LET b2 == bytes[2]
                  IN  IF Len(bytes) = 2
                      THEN <<b1 \div 4, (b1 % 4) * 16 + b2 \div 16, (b2 % 16) * 4, Pad>>
                      ELSE LET b3 == bytes[3]
                           IN  <<b1 \div 4, (b1 % 4) * 16 + b2 \div 16,
                                 (b2 % 16) * 4 + b3 \div 64, b3 % 64>>
                               \o btoa(SubSeq(bytes, 4, Len(bytes)))

arrayBufferToBase64(buffer) == btoa(buffer)

\* handleInputAudioMessage without its status guard.
handleInputAudioMessage_unguarded(s, pcm16Data) ==
    << [user_audio_chunk |-> arrayBufferToBase64(Int16Bytes(pcm16Data))] >>

\* handleInputAudioMessage: the frames handed to socket.send.
handleInputAudioMessage(s, pcm16Data) ==
    IF status[s] = "connected"
    THEN << [user_audio_chunk |-> arrayBufferToBase64(Int16Bytes(pcm16Data))] >>
    ELSE <<>>

\* The capture worklet posts its next chunk (processAndSendBuffer); the
\* microphone's context is running.
CaptureChunk ==
    /\ mic[1] = "open"
    /\ micPort.posted < MaxChunks
    /\ micPort' = [queue |-> Append(micPort.queue, Chunk(micPort.posted + 1)),
                   posted |-> micPort.posted + 1]
    /\ lastOp' = Op("CaptureChunk", 1)
    /\ fx' = NoFx
    /\ UNCHANGED <<lifeVars, mgrVars, workletVars, hookVars, connection, codec, capture, fresh, afterInterruption, connectionStatus>>

\* The oldest chunk of the port is delivered to the manager, whose
\* constructor has set the port's onmessage.
InputMessage ==
    /\ microQ = <<>>
    /\ pc[1] = "ready"
    /\ micPort.queue # <<>>
    /\ micPort' = [micPort EXCEPT !.queue = Tail(@)]
    /\ lastOp' = [Op("InputMessage", 1) EXCEPT !.accepted = (status[1] = "connected")]
    /\ fx' = [NoFx EXCEPT !.sent = handleInputAudioMessage(1, Head(micPort.queue))]
    /\ UNCHANGED <<lifeVars, mgrVars, workletVars, hookVars, connection, codec, capture, fresh, afterInterruption, connectionStatus>>

InputNext ==
    \/ StartSession
    \/ MicOpened(1)
    \/ MicFailed(1)
    \/ \E t \in FirstFrames, m \in Metadata : HandshakeFrame(1, t, m)
    \/ OutOpened(1)
    \/ OutFailed(1)
    \/ UnwindDone(1)
    \/ SocketError(1)
    \/ SocketClose(1)
    \/ EndSession(1)
    \/ EndAwaitIn(1)
    \/ EndAwaitOut(1)
    \/ CaptureChunk
    \/ InputMessage

InputSpec == Init /\ [][InputNext]_vars

(* ------------------------------------------------------------------------ *)
(* useConversation: the hook's startSession and endSession.                 *)
(* ------------------------------------------------------------------------ *)

\* One call of the hook: which function, where the call is, the session whose
\* promise it awaits, whether it created that session, what it returned or
\* threw, the volume it was given, and the two refs as the call found them.
HookCall(op, cpc, joined, created, result, error, volume) ==
    [op |-> op, pc |-> cpc, joined |-> joined, created |-> created, result |-> result,
     error |-> error, volume |-> volume, sawRef |-> conversationRef,
     sawPending |-> pendingConversationRef]

\* A call of the hook's startSession.
Call(cpc, joined, created, result, error) ==
    HookCall("startSession", cpc, joined, created, result, error, 0)

\* startSession without the test of pendingConversationRef: every call made
\* with no current session creates one.
HookStartSession_noCoalescing ==
    /\ UNCHANGED restVars
    /\ microQ = <<>>
    /\ Len(call) < MaxCalls
    /\ lastOp' = Op("HookStartSession", 0)
    /\ fx' = NoFx
    /\ IF conversationRef # 0
       THEN /\ call' = Append(call, Call("threw", 0, FALSE, 0, "TypeError"))
            /\ UNCHANGED <<lifeVars, pendingConversationRef, nSessions>>
       ELSE /\ nSessions < MaxSessions
            /\ StartSessionBegin(nSessions + 1)
            /\ nSessions' = nSessions + 1
            /\ pendingConversationRef' = nSessions + 1
            /\ call' = Append(call, Call("await", nSessions + 1, TRUE, 0, "none"))
    /\ UNCHANGED <<mgrVars, workletVars, conversationRef, microQ>>
    /\ HookNotified

\* startSession without the test of conversationRef: a call made with a
\* current session and no pending start creates another session.
HookStartSession_ignoresCurrent ==
    /\ UNCHANGED restVars
    /\ microQ = <<>>
    /\ Len(call) < MaxCalls
    /\ lastOp' = Op("HookStartSession", 0)
    /\ fx' = NoFx
    /\ IF pendingConversationRef # 0
       THEN /\ call' = Append(call, Call("await", pendingConversationRef, FALSE, 0, "none"))
            /\ UNCHANGED <<lifeVars, pendingConversationRef, nSessions>>
       ELSE /\ nSessions < MaxSessions
            /\ StartSessionBegin(nSessions + 1)
            /\ nSessions' = nSessions + 1
            /\ pendingConversationRef' = nSessions + 1
            /\ call' = Append(call, Call("await", nSessions + 1, TRUE, 0, "none"))
    /\ UNCHANGED <<mgrVars, workletVars, conversationRef, microQ>>
    /\ HookNotified

\* startSession up to its first await. With a current session it returns
\* conversationRef.current.getId(), which ConversationManager does not define
\* (it has getConversationId): the call throws a TypeError. With a pending
\* start it awaits that one. Otherwise it creates a session and awaits it.
HookStartSession ==
    /\ UNCHANGED restVars
    /\ microQ = <<>>
    /\ Len(call) < MaxCalls
    /\ lastOp' = Op("HookStartSession", 0)
    /\ fx' = NoFx
    /\ IF conversationRef # 0
       THEN /\ call' = Append(call, Call("threw", 0, FALSE, 0, "TypeError"))
            /\ UNCHANGED <<lifeVars, pendingConversationRef, nSessions>>
       ELSE IF pendingConversationRef # 0
       THEN /\ call' = Append(call, Call("await", pendingConversationRef, FALSE, 0, "none"))
            /\ UNCHANGED <<lifeVars, pendingConversationRef, nSessions>>
       ELSE /\ nSessions < MaxSessions
            /\ StartSessionBegin(nSessions + 1)
            /\ nSessions' = nSessions + 1
            /\ pendingConversationRef' = nSessions + 1
            /\ call' = Append(call, Call("await", nSessions + 1, TRUE, 0, "none"))
    /\ UNCHANGED <<mgrVars, workletVars, conversationRef, microQ>>
    /\ HookNotified

\* The continuation of a call after its await, once the start has settled:
\* the creating call stores the session in conversationRef and returns it, its
\* finally block clears pendingConversationRef; a coalesced call returns the
\* session it awaited. A rejected start rethrows in both. The callback that
\* setVolume chained on the pending start calls setVolume on the session (of
\* the managers, the model keeps the volume of session 1); on a rejected
\* start the chained promise rejects with nobody to catch it.
Continue ==
    /\ UNCHANGED restVars
    /\ microQ # <<>>
    /\ LET i == Head(microQ)
           c == call[i]
           s == c.joined
           resolved == pc[s] = "ready"
       IN  /\ call' = [call EXCEPT ![i] =
                         IF resolved
                         THEN [c EXCEPT !.pc = "returned",
                                        !.result = IF c.op = "startSession" THEN s ELSE 0]
                         ELSE [c EXCEPT !.pc = "threw", !.error = rejectedWith[s]]]
           /\ conversationRef' = IF c.created /\ resolved THEN s ELSE conversationRef
           /\ pendingConversationRef' = IF c.created THEN 0 ELSE pendingConversationRef
           /\ audioVolume' = IF c.op = "setVolume" /\ resolved /\ s = 1
                             THEN setVolume(c.volume).audioVolume ELSE audioVolume
           /\ lastOp' = Op("Continue", s)
    /\ microQ' = Tail(microQ)
    /\ fx' = NoFx
    /\ UNCHANGED <<conversationMode, lastInterruptTime, gain, timers, portIn, portOut,
                   nDispatched>>
    /\ UNCHANGED <<lifeVars, workletVars, nSessions>>
    /\ HookNotified

\* The hook's endSession giving up the pending start as well as the current
\* session.
HookEndSession_clearsPending ==
    /\ UNCHANGED restVars
    /\ microQ = <<>>
    /\ conversationRef' = 0
    /\ pendingConversationRef' = 0
    /\ IF conversationRef # 0
       THEN endSession(conversationRef)
       ELSE UNCHANGED lifeVars
    /\ lastOp' = Op("HookEndSession", conversationRef)
    /\ fx' = NoFx
    /\ UNCHANGED <<mgrVars, workletVars, call, microQ, nSessions>>
    /\ HookNotified

\* The hook's endSession: conversationRef is cleared, and the session it held,
\* if any, is asked to end.
HookEndSession ==
    /\ UNCHANGED restVars
    /\ microQ = <<>>
    /\ conversationRef' = 0
    /\ IF conversationRef # 0
       THEN endSession(conversationRef)
       ELSE UNCHANGED lifeVars
    /\ lastOp' = Op("HookEndSession", conversationRef)
    /\ fx' = NoFx
    /\ UNCHANGED <<mgrVars, workletVars, pendingConversationRef, call, microQ, nSessions>>
    /\ HookNotified

\* The hook never looks at what the handshake carried: one metadata object
\* stands for all.
HookMetadata == {m \in Metadata : m.conversation_id = "conv_b"}

HookNext ==
    \/ HookStartSession
    \/ Continue
    \/ HookEndSession
    \/ \E s \in Sessions :
         \/ MicOpened(s)
         \/ MicFailed(s)
         \/ \E t \in FirstFrames, m \in HookMetadata : HandshakeFrame(s, t, m)
         \/ OutOpened(s)
         \/ OutFailed(s)
         \/ UnwindDone(s)
         \/ SocketError(s)
         \/ SocketClose(s)
         \/ EndAwaitIn(s)
         \/ EndAwaitOut(s)

HookSpec == Init /\ [][HookNext]_vars

(* ------------------------------------------------------------------------ *)
(* HookVolumeSpec: the hook with its setVolume in use.                      *)
(* ------------------------------------------------------------------------ *)

\* The hook's setVolume: a callback is chained on the pending start, if there
\* is one, and setVolume is called on the current session, if there is one.
\* With neither, nothing happens and the volume is kept nowhere.
HookSetVolume(volume) ==
    /\ UNCHANGED restVars
    /\ microQ = <<>>
    /\ Len(call) < MaxCalls
    /\ call' = Append(call,
                 IF pendingConversationRef # 0
                 THEN HookCall("setVolume", "await", pendingConversationRef, FALSE, 0,
                               "none", volume)
                 ELSE HookCall("setVolume", "returned", 0, FALSE, 0, "none", volume))
    /\ audioVolume' = IF conversationRef = 1
                      THEN setVolume(volume).audioVolume ELSE audioVolume
    /\ lastOp' = [Op("HookSetVolume", conversationRef) EXCEPT !.id = volume]
    /\ fx' = NoFx
    /\ UNCHANGED <<conversationMode, lastInterruptTime, gain, timers, portIn, portOut,
                   nDispatched>>
    /\ UNCHANGED <<lifeVars, workletVars, conversationRef, pendingConversationRef, microQ,
                   nSessions>>
    /\ HookNotified

HookVolumeNext ==
    \/ HookNext
    \/ \E v \in Volumes : HookSetVolume(v)

HookVolumeSpec == Init /\ [][HookVolumeNext]_vars

(* ------------------------------------------------------------------------ *)
(* Properties                                                               *)
(* ------------------------------------------------------------------------ *)

ClearMsg == [type |-> "clearInterrupted", buffer |-> <<>>]
BufferMsg(bytes) == [type |-> "buffer", buffer |-> bytes]

\* The step just taken dispatched an inbound frame of the given type.
Dispatched(op, type) == op.op = "Dispatch" /\ op.kind = type

\* C1. Audio ordering guard: an audio frame dispatched while
\* lastInterruptTime = k is dropped when its event id is below k (nothing goes
\* to onAudioData, nothing is posted to the playback worklet, the mode and the
\* gain stay, no mode notification) and accepted when its id is k or more (the
\* mode is speaking; the chunk goes to onAudioData once and clearInterrupted
\* and the buffer are posted, unless the payload did not decode), whatever
\* timers, port messages and render callbacks are pending.
C1_AudioOrderingGuard ==
    [][Dispatched(lastOp', "audio") =>
         IF lastOp'.id < lastInterruptTime
         THEN /\ fx'.sink = <<>>
              /\ fx'.posted = <<>>
              /\ fx'.mode = <<>>
              /\ UNCHANGED <<portIn, conversationMode, gain, lastInterruptTime>>
         ELSE /\ conversationMode' = "speaking"
              /\ \/ /\ Len(fx'.sink) = 1
                    /\ portIn' = portIn \o <<ClearMsg, BufferMsg(fx'.sink[1])>>
                 \/ /\ fx'.sink = <<>>
                    /\ fx'.cb = <<"unhandledrejection">>
                    /\ portIn' = portIn]_vars

\* C1 witness: an audio frame older than the last interruption was dropped
\* while that interruption's fade timer was still pending and its interrupt
\* message not yet handled by the worklet.
C1_Witness ==
    /\ Dispatched(lastOp, "audio")
    /\ ~lastOp.accepted
    /\ lastOp.id < lastInterruptTime
    /\ timers > 0
    /\ portIn # <<>>

\* The resources a log opens, and those it calls close on, in order.
Opened(lg) == [i \in 1..Len(SelectSeq(lg, LAMBDA e: e[1] = "open")) |->
                 SelectSeq(lg, LAMBDA e: e[1] = "open")[i][2]]
CloseCalls(lg) == [i \in 1..Len(SelectSeq(lg, LAMBDA e: e[1] = "close")) |->
                     SelectSeq(lg, LAMBDA e: e[1] = "close")[i][2]]
Reverse(q) == [i \in 1..Len(q) |-> q[Len(q) + 1 - i]]
Count(lg, e) == Len(SelectSeq(lg, LAMBDA x: x = e))

\* C2. When startSession has rejected, it rejected with the error of the step
\* that failed, status disconnected has been notified once, close has been
\* called on every resource that was opened, in the reverse of the order of
\* opening, and no resource is open.
C2_StartFailureUnwinds ==
    \A s \in Sessions :
        pc[s] = "failed" =>
            /\ thrown[s] # "none"
            /\ rejectedWith[s] = thrown[s]
            /\ Count(log[s], <<"status", "disconnected">>) = 1
            /\ CloseCalls(log[s]) = Reverse(Opened(log[s]))
            /\ mic[s] \in {"none", "closed"}
            /\ sock[s] \in {"none", "closing", "closed"}
            /\ out[s] \in {"none", "closed"}

\* C2 witness: the playback device failed to open after the microphone and
\* the socket were open, and startSession has rejected.
C2_Witness ==
    /\ pc[1] = "failed"
    /\ thrown[1] = "outError"
    /\ Opened(log[1]) = <<"mic", "sock">>

Rank(st) ==
    CASE st = "none" -> 0
      [] st = "connecting" -> 1
      [] st = "connected" -> 2
      [] st = "disconnecting" -> 3
      [] st = "disconnected" -> 4

StatusNotes(lg) == SelectSeq(lg, LAMBDA e: e[1] = "status")

\* C4. The connection status of a manager only moves forward along
\* connecting, connected, disconnecting, disconnected, under every
\* interleaving of endSession calls, socket errors and socket closes, and so
\* do the status notifications of a session; disconnected is final.
C4_StatusForwardOnly ==
    /\ [][\A s \in Sessions : Rank(status'[s]) >= Rank(status[s])]_vars
    /\ [](\A s \in Sessions : \A i \in 1..Len(StatusNotes(log[s])) - 1 :
            Rank(StatusNotes(log[s])[i][2]) < Rank(StatusNotes(log[s])[i + 1][2]))

\* C4 witness: the socket's close event arrived in the middle of endSession
\* (onDisconnect fired before the playback device was closed), and endSession
\* has since run to its end.
C4_Witness ==
    /\ epc[1] = "done"
    /\ status[1] = "disconnected"
    /\ \E i, k \in 1..Len(log[1]) :
         i < k /\ log[1][i] = <<"cb", "onDisconnect">> /\ log[1][k] = <<"close", "out">>

\* C5 (as claimed). Once endSession has begun, the status is not disconnected
\* until the socket has been closed and both audio pipelines have finished
\* closing.
C5_DisconnectedOnlyAfterRelease ==
    \A s \in Sessions :
        (epc[s] # "idle" /\ status[s] = "disconnected") =>
            /\ sock[s] \in {"closing", "closed"}
            /\ mic[s] = "closed"
            /\ out[s] = "closed"

\* C6. endSession on a manager whose status is not connected changes nothing
\* of the manager, the worklet or the resources, emits nothing and calls close
\* on nothing.
C6_EndSessionNoOp ==
    [][(lastOp'.op = "EndSession" /\ status[lastOp'.s] # "connected") =>
          /\ UNCHANGED <<lifeVars, mgrVars, workletVars, hookVars>>
          /\ fx' = NoFx]_vars

\* C6 witness: a second endSession was called while the first one was waiting
\* for the microphone to close.
C6_Witness ==
    /\ lastOp.op = "EndSession"
    /\ ~lastOp.accepted
    /\ status[1] = "disconnecting"
    /\ epc[1] = "awaitIn"

\* C7 (as claimed). Whenever the status of a session is disconnected, its
\* microphone and its playback device are eventually released.
C7_DisconnectedLeadsToRelease ==
    (status[1] = "disconnected") ~> (mic[1] = "closed" /\ out[1] = "closed")

\* C8. Mode notifications fire on transitions only: a step notifies exactly
\* the changes of the mode it makes, each notification differing from the mode
\* before it, so that no two consecutive notifications carry the same mode; an
\* accepted audio frame notifies speaking exactly when the mode was not
\* speaking already.
NoRepeat(q) == \A i \in 1..Len(q) - 1 : q[i] # q[i + 1]

C8_ModeNotificationsOnTransitions ==
    [][/\ NoRepeat(<<conversationMode>> \o fx'.mode)
       /\ conversationMode' = (<<conversationMode>> \o fx'.mode)[Len(fx'.mode) + 1]
       /\ (Dispatched(lastOp', "audio") /\ lastOp'.accepted) =>
             fx'.mode = IF conversationMode = "speaking" THEN <<>> ELSE <<"speaking">>]_vars

\* C8 witness: the second of two accepted audio frames was dispatched with the
\* mode already speaking, and notified nothing.
C8_Witness ==
    /\ Dispatched(lastOp, "audio")
    /\ lastOp.accepted
    /\ nDispatched = 2
    /\ fx.mode = <<>>
    /\ conversationMode = "speaking"

\* C9. The dispatch of a ping frame with event id n sends exactly one frame,
\* a pong with event id n, within that dispatch, and no other step sends a
\* pong.
C9_PingPong ==
    /\ Dispatched(lastOp, "ping") => fx.sent = << [type |-> "pong", event_id |-> lastOp.id] >>
    /\ (\E i \in 1..Len(fx.sent) : fx.sent[i].type = "pong") => Dispatched(lastOp, "ping")

\* C9 witness: a ping with event id 2 was answered.
C9_Witness ==
    /\ Dispatched(lastOp, "ping")
    /\ lastOp.id = 2
    /\ fx.sent # <<>>

\* C10. In the playback worklet, clearInterrupted handled while the
\* interrupted flag is set (interrupt was the last message to touch the flag)
\* empties the queue, drops the buffer in progress and clears the flag;
\* handled while the flag is not set it leaves the queue, the buffer in
\* progress, the position and the flag as they are.
C10_ClearInterrupted ==
    [][(lastOp'.op = "WorkletMessage" /\ lastOp'.kind = "clearInterrupted") =>
          IF isInterrupted
          THEN /\ audioBuffers' = <<>>
               /\ currentAudioBuffer' = <<>>
               /\ ~isInterrupted'
          ELSE UNCHANGED workletVars]_vars

\* C10 witness: clearInterrupted discarded audio that was waiting in the
\* worklet when the interruption came.
C10_Witness ==
    /\ lastOp.op = "WorkletMessage"
    /\ lastOp.kind = "clearInterrupted"
    /\ fx.dropped > 0

\* The playback pipeline at rest after a flush: every fade timer has fired,
\* every message posted to the worklet has been handled, nothing is queued or
\* in progress and the interrupted flag is clear.
Flushed ==
    /\ timers = 0
    /\ portIn = <<>>
    /\ audioBuffers = <<>>
    /\ currentAudioBuffer = <<>>
    /\ ~isInterrupted

\* C11. After an interruption is dispatched, unless an audio frame is accepted
\* afterwards or the playback device is closed, the pipeline is eventually
\* flushed: the fade timers have fired, and the queue and the buffer in
\* progress are empty with the interrupted flag clear.
C11_StaleAudioDiscarded ==
    Dispatched(lastOp, "interruption") ~>
        \/ Flushed
        \/ Dispatched(lastOp, "audio") /\ lastOp.accepted
        \/ out[1] # "open"

\* C11 witness: the clearInterrupted posted by the fade timer was the last
\* message of the port and discarded audio that was waiting in the worklet;
\* the pipeline is flushed.
C11_Witness ==
    /\ lastOp.op = "WorkletMessage"
    /\ lastOp.kind = "clearInterrupted"
    /\ fx.dropped > 0
    /\ lastInterruptTime > 0
    /\ out[1] = "open"
    /\ Flushed

\* C12 (as claimed). A first inbound frame other than
\* conversation_initiation_metadata fails the handshake: on that frame the
\* socket is closed and startSession is on its way to rejecting (unwinding or
\* rejected), not left waiting.
C12_OtherFirstFrameFailsHandshake ==
    [][(lastOp'.op = "HandshakeFrame"
        /\ lastOp'.kind # "conversation_initiation_metadata") =>
          /\ pc'[lastOp'.s] \in {"unwindIn", "failed"}
          /\ sock'[lastOp'.s] \in {"closing", "closed"}]_vars

\* C13. A socket error or close while the handshake is waiting for the
\* metadata frame rejects WebSocketHandler.create with close called on the
\* socket, status disconnected is notified, close is called on the microphone,
\* and startSession rejects with the handshake error only once the microphone
\* has closed.
C13_HandshakeErrorRejects ==
    /\ [][(lastOp'.op \in {"SocketError", "SocketClose"} /\ pc[lastOp'.s] = "openSocket") =>
            LET s == lastOp'.s
            IN  /\ thrown'[s] = "handshakeError"
                /\ sock'[s] \in {"closing", "closed"}
                /\ log'[s] = log[s] \o << <<"close", "sock">>, <<"status", "disconnected">>,
                                          <<"close", "mic">> >>
                /\ mic'[s] = "closing"
                /\ pc'[s] = "unwindIn"
                /\ rejectedWith'[s] = "none"]_vars
    /\ [](\A s \in Sessions :
            (thrown[s] = "handshakeError" /\ rejectedWith[s] # "none") =>
                /\ rejectedWith[s] = "handshakeError"
                /\ pc[s] = "failed"
                /\ mic[s] = "closed"
                /\ sock[s] \in {"closing", "closed"})

\* C13 witness: the socket reported an error after an unexpected first frame
\* and before any metadata; startSession has rejected.
C13_Witness ==
    /\ thrown[1] = "handshakeError"
    /\ pc[1] = "failed"
    /\ ~hsListener[1]
    /\ connection[1] = NoConnection
    /\ sock[1] = "closing"

\* The sample rate a pcm format names, read off its characters.
PcmRate(format) ==
    CASE format = <<"p", "c", "m", "_", "1", "6", "0", "0", "0">> -> 16000
      [] format = <<"p", "c", "m", "_", "4", "4", "1", "0", "0">> -> 44100
      [] OTHER -> 0

\* C14. When startSession has resolved, the log of the session reads: status
\* connecting, the microphone opened at 16000, the socket opened, the metadata
\* m received, the playback device opened at the rate m's format names,
\* onConnect fired once with m's conversation id, status connected; and no
\* inbound frame is dispatched before that.
C14_SuccessfulStartOrder ==
    /\ \A s \in Sessions :
         pc[s] = "ready" =>
            \E m \in Metadata :
               /\ SubSeq(log[s], 1, 9) =
                    << <<"status", "connecting">>,
                       <<"open", "mic">>, <<"rate", "mic", 16000>>,
                       <<"open", "sock">>, <<"metadata", m>>,
                       <<"open", "out">>,
                       <<"rate", "out", PcmRate(m.agent_output_audio_format)>>,
                       <<"cb", "onConnect", m.conversation_id>>,
                       <<"status", "connected">> >>
               /\ \A i \in 10..Len(log[s]) :
                     log[s][i][1] \notin {"open", "rate", "metadata"}
                     /\ log[s][i] # <<"cb", "onConnect", m.conversation_id>>
    /\ nDispatched > 0 => Count(log[1], <<"status", "connected">>) = 1

\* C14 witness: a session started on metadata naming pcm_44100 has dispatched
\* its first inbound frame.
C14_Witness ==
    /\ pc[1] = "ready"
    /\ connection[1] = [conversationId |-> "conv_b", sampleRate |-> 44100]
    /\ nDispatched = 1

\* C15. The dispatch of a frame that does not parse fires onError and nothing
\* else: the status, the mode, lastInterruptTime, the resources, the log, the
\* gain, the timers, the ports and the worklet are as before, and the manager
\* still listens on an open socket.
C15_MalformedFrameSwallowed ==
    [][Dispatched(lastOp', "malformed") =>
          /\ fx' = [NoFx EXCEPT !.cb = <<"onError">>]
          /\ UNCHANGED <<lifeVars, workletVars, hookVars, restVars>>
          /\ UNCHANGED <<conversationMode, lastInterruptTime, audioVolume, gain, timers,
                         portIn, portOut>>
          /\ pc'[1] = "ready"
          /\ sock'[1] = "open"
          /\ status'[1] = status[1]]_vars

\* C15 witness: a frame that does not parse arrived first, while the session
\* was connected, and left it connected with frames still to come.
C15_Witness ==
    /\ Dispatched(lastOp, "malformed")
    /\ nDispatched = 1
    /\ status[1] = "connected"
    /\ fx.cb = <<"onError">>

InFlight(s) == pc[s] \in {"openMic", "openSocket", "openOut", "unwindIn"}

\* C17. Of the sessions one hook has created, at most one has status
\* connected and at most one start attempt is in flight, under every
\* interleaving of the hook's startSession and endSession calls, start
\* completions and socket events.
C17_OneActiveSession ==
    /\ Cardinality({s \in Sessions : status[s] = "connected"}) <= 1
    /\ Cardinality({s \in Sessions : InFlight(s)}) <= 1

\* C17 witness: the hook ended its first session and started a second one,
\* which is connected while the first is still closing its audio.
C17_Witness ==
    /\ status[1] = "disconnecting"
    /\ status[2] = "connected"
    /\ conversationRef = 2

\* Audio is playing: the worklet has samples queued or in progress on an open
\* playback device.
Playing == out[1] = "open" /\ (audioBuffers # <<>> \/ currentAudioBuffer # <<>>)

\* C18 (as claimed). Right after setVolume(level) the configured volume is
\* level and, if audio is playing, so is the gain applied to the output.
C18_SetVolumeImmediate ==
    [][lastOp'.op = "SetVolume" =>
          /\ audioVolume' = lastOp'.id
          /\ Playing' => gain'.value = lastOp'.id]_vars

\* C19 (as claimed). A sample encoded to PCM16 and decoded again is a PCM
\* value in -32768..32767 and, for a sample in [-1, 1], differs from the
\* sample by at most one quantization step, 1/32768.
C19_RoundTripWithinOneStep ==
    codec.stage = "decoded" =>
        /\ codec.pcm16 \in -32768..32767
        /\ (codec.float32 \in -Den..Den) =>
              LET d == codec.output - codec.float32
              IN  (IF d < 0 THEN -d ELSE d) * 32768 <= Den

\* C20 (as claimed). The dispatch of an accepted audio frame gives its chunk
\* to onAudioData exactly once, sets the gain to the configured volume, posts
\* clearInterrupted and then the buffer holding the same chunk to the playback
\* worklet, and leaves the mode speaking.
C20_AcceptedAudioForwardedAndEnqueued ==
    [][(Dispatched(lastOp', "audio") /\ lastOp'.accepted) =>
          /\ Len(fx'.sink) = 1
          /\ fx'.posted = <<ClearMsg, BufferMsg(fx'.sink[1])>>
          /\ portIn' = portIn \o fx'.posted
          /\ gain' = [value |-> audioVolume, ramp |-> FALSE]
          /\ conversationMode' = "speaking"]_vars

InterruptMsg == [type |-> "interrupt", buffer |-> <<>>]

\* C21. The dispatch of an interruption frame, whatever the mode before it,
\* notifies the mode interrupted and then listening, posts interrupt to the
\* playback worklet (behind whatever the port already holds) and leaves the
\* mode listening; so the mode is interrupted in no state between two steps.
C21_InterruptionModeNotifications ==
    /\ [][Dispatched(lastOp', "interruption") =>
            /\ fx'.mode = <<"interrupted", "listening">>
            /\ fx'.posted = <<InterruptMsg>>
            /\ portIn' = Append(portIn, InterruptMsg)
            /\ conversationMode' = "listening"]_vars
    /\ [](conversationMode # "interrupted")

\* C21 witness: an interruption was dispatched after an accepted audio frame
\* had set the mode to speaking, with that audio still on its way to the
\* worklet.
C21_Witness ==
    /\ Dispatched(lastOp, "interruption")
    /\ nDispatched = 2
    /\ Len(portIn) = 3
    /\ portIn[2].type = "buffer"
    /\ portOut = <<>>
    /\ fx.mode = <<"interrupted", "listening">>

\* The step just taken accepted an audio frame.
AudioAcceptedNow == Dispatched(lastOp, "audio") /\ lastOp.accepted

\* C23 (as claimed). After an audio frame is accepted, unless another one is
\* accepted later or the playback device is closed, the mode eventually
\* becomes listening.
C23_DrainReturnsToListening ==
    \A n \in 1..MaxDispatch :
        (AudioAcceptedNow /\ nDispatched = n) ~>
            \/ conversationMode = "listening"
            \/ out[1] # "open"
            \/ AudioAcceptedNow /\ nDispatched > n

\* C24 (as claimed). Every frame the socket delivers once the handshake frame
\* has been taken is dispatched by the manager: the dispatcher runs on it (a
\* ping, for one, is answered with its pong).
C24_EveryFrameDispatched ==
    [][(lastOp'.op \in {"Dispatch", "MessageUnheard"}
        /\ pc[lastOp'.s] \in {"openOut", "ready"}) =>
          /\ nDispatched' = nDispatched + 1
          /\ lastOp'.kind = "ping" =>
                fx'.sent = << [type |-> "pong", event_id |-> lastOp'.id] >>]_vars

\* C25. The hook's endSession called with no current session closes nothing
\* and leaves the pending start, the calls awaiting it and the sessions as
\* they are; the continuation of the call that began a start which has
\* resolved finds the session connected and stores it as the current one;
\* endSession called on a connected current session begins closing it; and a
\* session whose start has returned is, for as long as it is connected, the
\* hook's current session.
C25_EndSessionDuringStart ==
    /\ [][(lastOp'.op = "HookEndSession" /\ conversationRef = 0) =>
            UNCHANGED <<lifeVars, pendingConversationRef, call, microQ, nSessions>>]_vars
    /\ [][(lastOp'.op = "Continue" /\ call[Head(microQ)].created
          /\ pc[lastOp'.s] = "ready") =>
            /\ status[lastOp'.s] = "connected"
            /\ conversationRef' = lastOp'.s]_vars
    /\ [][(lastOp'.op = "HookEndSession" /\ conversationRef # 0
          /\ status[conversationRef] = "connected") =>
            /\ status'[conversationRef] = "disconnecting"
            /\ sock'[conversationRef] \in {"closing", "closed"}
            /\ mic'[conversationRef] = "closing"]_vars
    /\ [](\A i \in 1..Len(call) :
            (call[i].created /\ call[i].pc = "returned"
             /\ status[call[i].joined] = "connected") =>
                conversationRef = call[i].joined)

\* C25 witness: endSession has just been called with no current session
\* while the first start, past its handshake, was waiting for the playback
\* device; the start is still pending.
C25_Witness ==
    /\ lastOp.op = "HookEndSession"
    /\ lastOp.s = 0
    /\ pendingConversationRef = 1
    /\ pc[1] = "openOut"
    /\ Len(call) = 1
    /\ call[1].pc = "await"

\* C26 (as claimed). A startSession call of the hook made while it has a
\* current session creates no session and returns without an error.
C26_StartWhileActiveReturnsId ==
    \A i \in 1..Len(call) :
        (call[i].op = "startSession" /\ call[i].sawRef # 0) =>
            /\ ~call[i].created
            /\ call[i].pc = "returned"
            /\ call[i].error = "none"

\* C27 (as claimed). A startSession call of the hook made when the session it
\* holds is disconnected begins a fresh session.
C27_FreshSessionAfterDisconnect ==
    [][(lastOp'.op = "HookStartSession" /\ conversationRef # 0
        /\ status[conversationRef] = "disconnected") =>
          /\ nSessions' = nSessions + 1
          /\ pendingConversationRef' = nSessions'
          /\ pc'[nSessions'] = "openMic"]_vars

\* C28 (as claimed). Once session 1 has started and every continuation has
\* run, its configured volume is the one last set through the hook's
\* setVolume before the first startSession call or while that start was
\* pending.
C28_VolumeSetBeforeStart ==
    \A i \in 1..Len(call) :
        (/\ call[i].op = "setVolume"
         /\ call[i].sawPending = 1 \/ \A j \in 1..(i - 1) : call[j].op = "setVolume"
         /\ \A j \in (i + 1)..Len(call) : call[j].op # "setVolume"
         /\ call[i].pc # "await"
         /\ pc[1] = "ready"
         /\ microQ = <<>>) =>
            audioVolume = call[i].volume

\* The chunks of a queue end to end.
RECURSIVE Flatten(_)
Flatten(q) == IF q = <<>> THEN <<>> ELSE Head(q) \o Flatten(Tail(q))

\* The samples the worklet holds that are still to be played: the rest of the
\* buffer in progress, then the queued buffers in order.
Remaining ==
    (IF currentAudioBuffer = <<>> THEN <<>>
     ELSE SubSeq(currentAudioBuffer[1], currentPosition + 1, Len(currentAudioBuffer[1])))
    \o Flatten(audioBuffers)

\* C29 (as claimed). A render callback writes the next samples still to be
\* played, in order, as many as the block takes or as there are, and removes
\* exactly those from what the worklet holds; a buffer message appends its
\* samples behind them.
C29_PlaybackFifo ==
    /\ [][lastOp'.op = "Process" =>
            /\ Remaining = fx'.played \o Remaining'
            /\ Len(fx'.played) = IF Len(Remaining) < BlockLen THEN Len(Remaining)
                                  ELSE BlockLen]_vars
    /\ [][(lastOp'.op = "WorkletMessage" /\ lastOp'.kind = "buffer"
          /\ Len(Head(portIn).buffer) % 2 = 0) =>
            Remaining' = Remaining \o Int16Array(Head(portIn).buffer)]_vars

\* C30. After every callback of the capture worklet its buffer holds fewer
\* samples than the threshold (a quarter of the target rate); every chunk
\* emitted had reached the threshold, and had not before its last block was
\* pushed; and the chunks emitted, end to end and followed by the buffer, are
\* the PCM16 conversion of the captured samples in order, so that the chunks
\* are a prefix of the captured stream with nothing lost, repeated or moved.
C30_CaptureChunking ==
    /\ 4 * Len(capture.audioBuffer) < TargetSampleRate
    /\ \A k \in 1..Len(capture.emitted) :
         /\ 4 * Len(capture.emitted[k]) >= TargetSampleRate
         /\ 4 * (Len(capture.emitted[k]) - BlockLen) < TargetSampleRate
    /\ Flatten(capture.emitted) \o ToPcm16(capture.audioBuffer) = ToPcm16(capture.captured)

\* C30 witness: two chunks of different lengths have been emitted and a
\* sample captured since is waiting in the buffer.
C30_Witness ==
    /\ Len(capture.emitted) = 2
    /\ Len(capture.emitted[1]) # Len(capture.emitted[2])
    /\ capture.audioBuffer # <<>>

\* C22 (as claimed). lastInterruptTime starts at 0 and no step lowers it.
C22_LastInterruptMonotonic ==
    /\ lastInterruptTime = 0
    /\ [][lastInterruptTime' >= lastInterruptTime]_vars

\* The steps the runtime takes by itself: awaited closes return, socket close
\* events are delivered, timers fire, port messages are delivered and the
\* audio thread keeps rendering.
Fairness ==
    /\ WF_vars(UnwindDone(1))
    /\ WF_vars(EndAwaitIn(1))
    /\ WF_vars(EndAwaitOut(1))
    /\ WF_vars(SocketClose(1) /\ sock[1] = "closing")
    /\ WF_vars(TimerFire)
    /\ WF_vars(OutputMessage)
    /\ WF_vars(WorkletMessage)
    /\ WF_vars(Process)

FairSpec == Spec /\ Fairness

(* ------------------------------------------------------------------------ *)
(* C31: captured audio is forwarded only while connected, once, in order.   *)
(* ------------------------------------------------------------------------ *)

\* The user_audio_chunk frames among the frames a step sent.
AudioChunksSent(sent) == SelectSeq(sent, LAMBDA m : "user_audio_chunk" \in DOMAIN m)

\* C31: a user_audio_chunk frame is sent only by a chunk's delivery while the
\* status is connected (never once it is disconnecting or disconnected); a
\* delivery while connected sends exactly one frame, carrying the bytes of
\* the oldest chunk of the port, and takes that chunk off the port, so that
\* chunks go out once each in the order they were captured; a delivery in
\* any other status sends nothing.
C31_CapturedAudioSentWhileConnected ==
    /\ [](AudioChunksSent(fx.sent) # <<>> =>
            lastOp.op = "InputMessage" /\ status[1] = "connected")
    /\ [][micPort'.queue # micPort.queue /\ micPort'.posted = micPort.posted =>
            /\ micPort'.queue = Tail(micPort.queue)
            /\ IF status[1] = "connected"
               THEN /\ Len(fx'.sent) = 1
                    /\ AudioChunksSent(fx'.sent) = fx'.sent
                    /\ LET b == base64ToArrayBuffer(fx'.sent[1].user_audio_chunk)
                       IN  b.ok /\ b.bytes = Int16Bytes(Head(micPort.queue))
               ELSE fx'.sent = <<>>]_vars

\* C31 witness: the second chunk captured has been sent, while connected.
C31_Witness_SecondChunkSent ==
    /\ lastOp.op = "InputMessage"
    /\ status[1] = "connected"
    /\ Len(fx.sent) = 1
    /\ base64ToArrayBuffer(fx.sent[1].user_audio_chunk).bytes = Int16Bytes(Chunk(2))

(* ------------------------------------------------------------------------ *)
(* C32: the delayed flush spares the audio accepted after the interruption. *)
(* ------------------------------------------------------------------------ *)

\* The chunks the worklet holds (queued or being played) that were posted
\* after the most recent interruption: the pipeline's fresh chunks that are
\* no longer in the port.
FreshInWorklet == IF fresh > BuffersIn(portIn) THEN fresh - BuffersIn(portIn) ELSE 0

\* The message at the head of the port is the "clearInterrupted" of a fade
\* timer: the one processIncomingAudio posts is followed by its buffer.
TimerClearAtHead ==
    /\ portIn # <<>>
    /\ Head(portIn).type = "clearInterrupted"
    /\ Len(portIn) = 1 \/ portIn[2].type # "buffer"

C33_NoSpeakingAfterInterruption ==
    afterInterruption => conversationMode # "speaking"

(* ------------------------------------------------------------------------ *)
(* C34: the hook's status and the session it holds.                         *)
(* ------------------------------------------------------------------------ *)

\* C34 (as claimed): while the session the hook holds is connected, the
\* status the hook exposes is connected, and no other session (one ended
\* earlier, whose socket close or whose endSession completes late) fires
\* onDisconnect.
C34_HookStatusReflectsSession ==
    /\ []((conversationRef # 0 /\ status[conversationRef] = "connected") =>
            connectionStatus = "connected")
    /\ [][(conversationRef # 0 /\ status[conversationRef] = "connected") =>
            \A s \in Sessions \ {conversationRef} :
                log'[s] # log[s] =>
                    \A i \in 1..Len(Notified) : Notified[i] # <<"cb", "onDisconnect">>]_vars

=============================================================================
